---------------------------- MODULE Spec2Model ----------------------------
(***************************************************************************)
(* Model of UnityMcpServer/src/config.py: get_unity_port(), the dataclass  *)
(* ServerConfig and the module-level "config = ServerConfig()".            *)
(*                                                                         *)
(* A text is a sequence of characters.  The alphabet holds one character   *)
(* of every class the code tells apart:                                    *)
(*   "0", "7"  ASCII decimal digits                                        *)
(*   "ar3"     U+0663 ARABIC-INDIC DIGIT THREE: str.isdigit() is true and  *)
(*             int() reads it as 3                                         *)
(*   "sup2"    U+00B2 SUPERSCRIPT TWO: str.isdigit() is true, int() raises *)
(*             ValueError                                                  *)
(*   "sp"      whitespace (removed by str.strip())                         *)
(*   "minus"   the sign '-' (int() accepts it, str.isdigit() does not)     *)
(*   "a"       a letter                                                    *)
(* An optional value (Python's None or a value) is <<>> or <<v>>.          *)
(* Floats with a whole value (86400.0, 1.0) are written as integers.       *)
(***************************************************************************)
EXTENDS Integers, Sequences, FiniteSets, TLC

\* ------------------------------------------------------------------ bounds
MaxLen == 5
MaxCalls == 2
MaxEnvSteps == 2

\* --------------------------------------------------------------- constants
DefaultPort == 6400

Chars == {"0", "7", "ar3", "sup2", "sp", "minus", "a"}
Whitespace == {"sp"}
\* characters for which str.isdigit() is true
DigitChars == {"0", "7", "ar3", "sup2"}
\* characters int() accepts as base-10 digits (Unicode category Nd)
DecimalChars == {"0", "7", "ar3"}

DigitValue(ch) ==
    CASE ch = "0" -> 0
      [] ch = "7" -> 7
      [] ch = "ar3" -> 3

Str == UNION {[1..n -> Chars] : n \in 0..MaxLen}

\* contents another process writes while the server runs
EnvContents ==
    { <<>>, <<"7">>, <<"7", "0">>, <<"sp", "7">>, <<"minus", "7">>, <<"sup2">> }

Modes == {"ok", "noperm", "ioerr_open", "ioerr_read"}

None == <<>>
Some(v) == <<v>>

\* ------------------------------------------------------- string operations
RECURSIVE LStrip(_)
LStrip(s) ==
    IF s # <<>> /\ Head(s) \in Whitespace THEN LStrip(Tail(s)) ELSE s

RECURSIVE RStrip(_)
RStrip(s) ==
    IF s # <<>> /\ s[Len(s)] \in Whitespace
    THEN RStrip(SubSeq(s, 1, Len(s) - 1))
    ELSE s

\* mutant: only the leading whitespace is removed (lstrip for strip)
Strip_leftOnly(s) == LStrip(s)

\* str.strip()
Strip(s) == RStrip(LStrip(s))

\* str.isdigit(): at least one character and all of them digits
IsDigit(s) == Len(s) > 0 /\ \A i \in 1..Len(s) : s[i] \in DigitChars

RECURSIVE DecVal(_)
DecVal(s) ==
    IF s = <<>> THEN 0
    ELSE DecVal(SubSeq(s, 1, Len(s) - 1)) * 10 + DigitValue(s[Len(s)])

\* int(s) for a str: surrounding whitespace and one leading sign are allowed
IntBody(s) ==
    LET t == Strip(s)
    IN  IF t # <<>> /\ Head(t) = "minus" THEN Tail(t) ELSE t

IntParses(s) ==
    /\ IntBody(s) # <<>>
    /\ \A i \in 1..Len(IntBody(s)) : IntBody(s)[i] \in DecimalChars

IntValue(s) ==
    LET t == Strip(s)
    IN  IF t # <<>> /\ Head(t) = "minus" THEN 0 - DecVal(Tail(t)) ELSE DecVal(t)

\* mutant: a narrow handler, "except OSError"
Catches_onlyOSError(e) ==
    e \in {"FileNotFoundError", "PermissionError", "OSError"}

\* "except Exception": every exception the try block can raise is an Exception
Catches(e) == e \in {"FileNotFoundError", "PermissionError", "OSError", "ValueError"}

\* a printed diagnostic line
Line(kind, port, detail) == [kind |-> kind, port |-> port, detail |-> detail]

\* -------------------------------------------------------------------- state
VARIABLES
    file,       \* the override file at its path: [exists, mode, content]
    fh,         \* the handle opened at line 18: None or Some([linked, content, mode])
    pc,         \* position of the module / of the running get_unity_port call
    caller,     \* who runs get_unity_port: "init" (default_factory) or "direct"
    raw,        \* result of f.read()
    port_str,   \* local port_str
    port,       \* local port
    exc,        \* exception raised in the try block of the running call
    out,        \* lines printed so far
    mark,       \* Len(out) when the running call started
    rets,       \* values returned by the completed calls, in order
    calls,      \* number of get_unity_port calls started
    config,     \* the module global config: None or Some(record)
    envSteps    \* number of changes made to the file by other processes

vars == << file, fh, pc, caller, raw, port_str, port, exc, out, mark, rets,
           calls, config, envSteps >>

locals == << raw, port_str, port, exc >>

AbsentFile == [exists |-> FALSE, mode |-> "ok", content |-> <<>>]
FileOf(m, c) == [exists |-> TRUE, mode |-> m, content |-> c]

\* file states: every content up to MaxLen for a readable file; an unreadable
\* file's content is never seen, a few stand for all
FileStates ==
    {AbsentFile}
      \cup {FileOf("ok", c) : c \in Str}
      \cup {FileOf(m, c) : m \in Modes \ {"ok"}, c \in EnvContents}

EnvFileStates ==
    {AbsentFile} \cup {FileOf(m, c) : m \in Modes, c \in EnvContents}

InitRest ==
    /\ fh = None
    /\ pc = "import"
    /\ caller = "init"
    /\ raw = None
    /\ port_str = None
    /\ port = None
    /\ exc = "None"
    /\ out = <<>>
    /\ mark = 0
    /\ rets = <<>>
    /\ calls = 0
    /\ config = None
    /\ envSteps = 0

Init == file \in FileStates /\ InitRest

InitEnv == file \in EnvFileStates /\ InitRest

\* --------------------------------------------------------- get_unity_port
\* line 53: ServerConfig() runs the default_factory of unity_port
ModuleLoad ==
    /\ pc = "import"
    /\ pc' = "exists"
    /\ caller' = "init"
    /\ calls' = calls + 1
    /\ mark' = Len(out)
    /\ UNCHANGED << file, fh, locals, out, rets, config, envSteps >>

\* mutant: the file is looked at by the first call only
ExistsCheck_firstCallOnly ==
    /\ pc = "exists"
    /\ pc' = IF file.exists /\ calls = 1 THEN "open" ELSE "fallback"
    /\ UNCHANGED << file, fh, caller, locals, out, mark, rets, calls, config,
                    envSteps >>

\* line 17: os.path.exists(port_file)
ExistsCheck ==
    /\ pc = "exists"
    /\ pc' = IF file.exists THEN "open" ELSE "fallback"
    /\ UNCHANGED << file, fh, caller, locals, out, mark, rets, calls, config,
                    envSteps >>

\* line 18: open(port_file, 'r')
Open ==
    /\ pc = "open"
    /\ IF ~file.exists
       THEN /\ exc' = "FileNotFoundError" /\ pc' = "except" /\ fh' = fh
       ELSE IF file.mode = "noperm"
       THEN /\ exc' = "PermissionError" /\ pc' = "except" /\ fh' = fh
       ELSE IF file.mode = "ioerr_open"
       THEN /\ exc' = "OSError" /\ pc' = "except" /\ fh' = fh
       ELSE /\ fh' = Some([linked |-> TRUE, content |-> file.content,
                           mode |-> file.mode])
            /\ pc' = "read"
            /\ exc' = exc
    /\ UNCHANGED << file, caller, raw, port_str, port, out, mark, rets, calls,
                    config, envSteps >>

\* line 19: f.read().strip(); an exception leaves the with block, closing f
Read ==
    /\ pc = "read"
    /\ IF fh[1].mode = "ioerr_read"
       THEN /\ exc' = "OSError"
            /\ pc' = "except"
            /\ fh' = None
            /\ UNCHANGED << raw, port_str >>
       ELSE /\ raw' = Some(fh[1].content)
            /\ port_str' = Some(Strip(fh[1].content))
            /\ pc' = "isdigit"
            /\ UNCHANGED << exc, fh >>
    /\ UNCHANGED << file, caller, port, out, mark, rets, calls, config,
                    envSteps >>

\* line 20: if port_str.isdigit(); when false the with block ends, closing f
IsDigitCheck ==
    /\ pc = "isdigit"
    /\ IF IsDigit(port_str[1])
       THEN pc' = "int" /\ fh' = fh
       ELSE pc' = "fallback" /\ fh' = None
    /\ UNCHANGED << file, caller, locals, out, mark, rets, calls, config,
                    envSteps >>

\* line 21: port = int(port_str)
IntParse ==
    /\ pc = "int"
    /\ IF IntParses(port_str[1])
       THEN /\ port' = Some(IntValue(port_str[1]))
            /\ pc' = "print_read"
            /\ UNCHANGED << exc, fh >>
       ELSE /\ exc' = "ValueError"
            /\ pc' = "except"
            /\ fh' = None
            /\ port' = port
    /\ UNCHANGED << file, caller, raw, port_str, out, mark, rets, calls, config,
                    envSteps >>

\* mutant: the success line is printed but the return is missing, so the
\* call falls through to the default
ReturnPort_fallThrough ==
    /\ pc = "print_read"
    /\ out' = Append(out, Line("read", port, "None"))
    /\ fh' = None
    /\ pc' = "fallback"
    /\ UNCHANGED << file, caller, locals, mark, rets, calls, config, envSteps >>

\* mutant: a call that read a port also stores it into the existing config
ReturnPort_refresh ==
    /\ pc = "print_read"
    /\ out' = Append(out, Line("read", port, "None"))
    /\ rets' = Append(rets, port[1])
    /\ fh' = None
    /\ pc' = "returned"
    /\ config' = IF config # None
                 THEN Some([config[1] EXCEPT !.unity_port = port[1]])
                 ELSE config
    /\ UNCHANGED << file, caller, locals, mark, calls, envSteps >>

\* lines 22-23: print the success line, return port (closing f)
ReturnPort ==
    /\ pc = "print_read"
    /\ out' = Append(out, Line("read", port, "None"))
    /\ rets' = Append(rets, port[1])
    /\ fh' = None
    /\ pc' = "returned"
    /\ UNCHANGED << file, caller, locals, mark, calls, config, envSteps >>

\* mutant: the handler swallows the exception without printing it
Except_silent ==
    /\ pc = "except"
    /\ out' = out
    /\ pc' = IF Catches(exc) THEN "fallback" ELSE "raised"
    /\ UNCHANGED << file, fh, caller, locals, mark, rets, calls, config,
                    envSteps >>

\* lines 24-25: except Exception as e: print the error detail
Except ==
    /\ pc = "except"
    /\ IF Catches(exc)
       THEN /\ out' = Append(out, Line("error", None, exc))
            /\ pc' = "fallback"
       ELSE /\ out' = out
            /\ pc' = "raised"
    /\ UNCHANGED << file, fh, caller, locals, mark, rets, calls, config,
                    envSteps >>

\* mutant: the fallback returns the server's own port
Fallback_mcpPort ==
    /\ pc = "fallback"
    /\ out' = Append(out, Line("default", None, "None"))
    /\ rets' = Append(rets, 6500)
    /\ pc' = "returned"
    /\ UNCHANGED << file, fh, caller, locals, mark, calls, config, envSteps >>

\* lines 28-29: print the default line, return 6400
Fallback ==
    /\ pc = "fallback"
    /\ out' = Append(out, Line("default", None, "None"))
    /\ rets' = Append(rets, DefaultPort)
    /\ pc' = "returned"
    /\ UNCHANGED << file, fh, caller, locals, mark, calls, config, envSteps >>

\* mutant: a buffer of 16 KB for 16 MB
ServerConfig_smallBuffer(unity_port) ==
    [ unity_host |-> "localhost",
      unity_port |-> unity_port,
      mcp_port |-> 6500,
      connection_timeout |-> 86400,
      buffer_size |-> 16 * 1024,
      log_level |-> "INFO",
      log_format |-> "%(asctime)s - %(name)s - %(levelname)s - %(message)s",
      max_retries |-> 3,
      retry_delay |-> 1 ]

\* ------------------------------------------------------------ ServerConfig
\* lines 31-50: the fields of ServerConfig with their defaults
ServerConfig(unity_port) ==
    [ unity_host |-> "localhost",
      unity_port |-> unity_port,
      mcp_port |-> 6500,
      connection_timeout |-> 86400,
      buffer_size |-> 16 * 1024 * 1024,
      log_level |-> "INFO",
      log_format |-> "%(asctime)s - %(name)s - %(levelname)s - %(message)s",
      max_retries |-> 3,
      retry_delay |-> 1 ]

\* mutant: the config is built from the default port, not from the value
\* the factory returned
Construct_defaultPort ==
    /\ pc = "returned"
    /\ caller = "init"
    /\ config' = Some(ServerConfig(DefaultPort))
    /\ pc' = "loaded"
    /\ UNCHANGED << file, fh, caller, locals, out, mark, rets, calls, envSteps >>

\* line 53: __init__ stores the factory's value and the defaults, then the
\* name config is bound
Construct ==
    /\ pc = "returned"
    /\ caller = "init"
    /\ config' = Some(ServerConfig(rets[Len(rets)]))
    /\ pc' = "loaded"
    /\ UNCHANGED << file, fh, caller, locals, out, mark, rets, calls, envSteps >>

\* mutant: a later call goes through ServerConfig() again
Recall_rebuild ==
    /\ \/ pc = "loaded"
       \/ pc = "returned" /\ caller = "direct"
    /\ calls < MaxCalls
    /\ pc' = "exists"
    /\ caller' = "init"
    /\ calls' = calls + 1
    /\ mark' = Len(out)
    /\ raw' = None
    /\ port_str' = None
    /\ port' = None
    /\ exc' = "None"
    /\ UNCHANGED << file, fh, out, rets, config, envSteps >>

\* a later call of get_unity_port() by code that imported the module
Recall ==
    /\ \/ pc = "loaded"
       \/ pc = "returned" /\ caller = "direct"
    /\ calls < MaxCalls
    /\ pc' = "exists"
    /\ caller' = "direct"
    /\ calls' = calls + 1
    /\ mark' = Len(out)
    /\ raw' = None
    /\ port_str' = None
    /\ port' = None
    /\ exc' = "None"
    /\ UNCHANGED << file, fh, out, rets, config, envSteps >>

\* the steps of one run of get_unity_port
Call ==
    \/ ExistsCheck
    \/ Open
    \/ Read
    \/ IsDigitCheck
    \/ IntParse
    \/ ReturnPort
    \/ Except
    \/ Fallback

\* the module load: line 53 from the factory call to the binding of config
Load ==
    \/ ModuleLoad
    \/ Call
    \/ Construct

Next ==
    \/ Load
    \/ Recall

Spec == Init /\ [][Next]_vars

\* the module load alone; the interpreter runs every step it started to its
\* end, no step blocks
FairSpec == Init /\ [][Load]_vars /\ WF_vars(Load)

\* ------------------------------------------- other processes and the file
\* what an open handle sees of a change made through the path
Sync(h, f) ==
    IF h # None /\ h[1].linked
    THEN Some([h[1] EXCEPT !.content = f.content, !.mode = f.mode])
    ELSE h

\* another process writes c: rewrites the file in place, or creates it
EnvWrite(c) ==
    /\ envSteps < MaxEnvSteps
    /\ file' = IF file.exists THEN [file EXCEPT !.content = c] ELSE FileOf("ok", c)
    /\ fh' = IF file.exists THEN Sync(fh, file') ELSE fh
    /\ envSteps' = envSteps + 1
    /\ UNCHANGED << pc, caller, locals, out, mark, rets, calls, config >>

\* another process unlinks the file; an open handle keeps the unlinked file
EnvDelete ==
    /\ envSteps < MaxEnvSteps
    /\ file.exists
    /\ file' = AbsentFile
    /\ fh' = IF fh # None THEN Some([fh[1] EXCEPT !.linked = FALSE]) ELSE fh
    /\ envSteps' = envSteps + 1
    /\ UNCHANGED << pc, caller, locals, out, mark, rets, calls, config >>

\* another process changes the permissions, or the device starts or stops failing
EnvChmod(m) ==
    /\ envSteps < MaxEnvSteps
    /\ file.exists
    /\ m # file.mode
    /\ file' = [file EXCEPT !.mode = m]
    /\ fh' = Sync(fh, file')
    /\ envSteps' = envSteps + 1
    /\ UNCHANGED << pc, caller, locals, out, mark, rets, calls, config >>

Env ==
    \/ \E c \in EnvContents : EnvWrite(c)
    \/ EnvDelete
    \/ \E m \in Modes : EnvChmod(m)

SpecEnv == InitEnv /\ [][Next \/ Env]_vars

\* ------------------------------------------------- a holder of the config
IntFields == {"unity_port", "mcp_port", "max_retries"}
StrFields == {"unity_host"}

\* lines 31-32: @dataclass without frozen=True leaves attribute assignment
\* enabled: config.<f> = v
CollabSetAttr(f, v) ==
    /\ config # None
    /\ config[1][f] # v
    /\ config' = Some([config[1] EXCEPT ![f] = v])
    /\ UNCHANGED << file, fh, pc, caller, locals, out, mark, rets, calls,
                    envSteps >>

Collab ==
    \/ \E f \in IntFields : \E v \in {0, 7777} : CollabSetAttr(f, v)
    \/ \E f \in StrFields : \E v \in {"0.0.0.0"} : CollabSetAttr(f, v)

SpecCollab == InitEnv /\ [][Next \/ Collab]_vars


\* ------------------------------------------------------------ vocabulary
\* the value the last completed call returned
LastRet == rets[Len(rets)]

\* the lines printed by the running (or last) call
CallOut == SubSeq(out, mark + 1, Len(out))

Kinds(lines) == [i \in 1..Len(lines) |-> lines[i].kind]

\* C with leading and trailing whitespace removed
Trimmed(c) ==
    LET keep == {i \in 1..Len(c) : c[i] \notin Whitespace}
        lo == CHOOSE i \in keep : \A j \in keep : i <= j
        hi == CHOOSE i \in keep : \A j \in keep : j <= i
    IN  IF keep = {} THEN <<>> ELSE SubSeq(c, lo, hi)

\* a non-empty string of decimal digits
IsDecimalString(t) == t # <<>> /\ \A i \in 1..Len(t) : t[i] \in DecimalChars

RECURSIVE Pow10(_)
Pow10(n) == IF n = 0 THEN 1 ELSE 10 * Pow10(n - 1)

\* the number a string of decimal digits denotes, by place value
RECURSIVE PlaceValue(_)
PlaceValue(t) ==
    IF t = <<>> THEN 0
    ELSE DigitValue(Head(t)) * Pow10(Len(t) - 1) + PlaceValue(Tail(t))

\* the port the claims expect for a readable file holding c
ExpectedPort(c) ==
    IF IsDecimalString(Trimmed(c)) THEN PlaceValue(Trimmed(c)) ELSE 6400

FailureState ==
    \/ ~file.exists
    \/ file.mode # "ok"
    \/ ~IsDecimalString(Trimmed(file.content))

\* C2: no exception leaves get_unity_port; every started call ends and
\* returns an integer, and the integer is 6400 whenever the file is absent,
\* unreadable, failing or malformed.
C2_NeverRaises ==
    /\ [](pc # "raised")
    /\ [](pc = "returned" => (LastRet \in Nat /\ (FailureState => LastRet = 6400)))
    /\ (pc = "exists") ~> (pc = "returned")

\* C2 witness: a call whose int() raised ValueError (the content passed
\* isdigit()) has returned 6400.
C2_Witness ==
    /\ pc = "returned"
    /\ exc = "ValueError"
    /\ LastRet = 6400

\* C3: the config built with no arguments holds the value get_unity_port
\* returned during the construction as unity_port, and the fixed default in
\* every other field.
C3_ConfigDefaults ==
    pc = "loaded" =>
        config = << [ unity_host |-> "localhost",
                      unity_port |-> LastRet,
                      mcp_port |-> 6500,
                      connection_timeout |-> 86400,
                      buffer_size |-> 16777216,
                      log_level |-> "INFO",
                      log_format |-> "%(asctime)s - %(name)s - %(levelname)s - %(message)s",
                      max_retries |-> 3,
                      retry_delay |-> 1 ] >>

\* C3 witness: the config was built while the file held a port other than
\* the default.
C3_Witness ==
    /\ pc = "loaded"
    /\ file.exists /\ file.mode = "ok"
    /\ config[1].unity_port = 7777

\* C5: with the override file absent, the call returns 6400 and the config
\* built from it has unity_port = 6400.
C5_AbsentFile ==
    ~file.exists =>
        /\ pc = "returned" => LastRet = 6400
        /\ pc = "loaded" => config[1].unity_port = 6400

\* C5 witness: the config was built with the file absent.
C5_Witness == ~file.exists /\ pc = "loaded" /\ config # None

\* C6: with the file unchanged between them, two calls return the same
\* value, and no step of a call changes the file.
C6_Idempotent ==
    /\ []((pc = "returned" /\ Len(rets) >= 2) => LastRet = rets[Len(rets) - 1])
    /\ [][file' = file]_vars

\* C6 witness: a second call returned a port read from the file.
C6_Witness ==
    /\ pc = "returned"
    /\ Len(rets) >= 2
    /\ LastRet = 7777

\* C7: the lines a call prints match its result: the success line alone
\* when it returns the parsed port, the default line last and no success
\* line when it returns the fallback; the error line only after an
\* exception, and then followed by the default line; no error line for a
\* missing file or a content that is not all digits.
C7_Diagnostics ==
    pc = "returned" =>
        /\ \/ /\ port # None
              /\ CallOut = << [kind |-> "read", port |-> <<LastRet>>, detail |-> "None"] >>
           \/ /\ port = None
              /\ LastRet = 6400
              /\ Kinds(CallOut) \in { <<"default">>, <<"error", "default">> }
        /\ (Kinds(CallOut) = <<"error", "default">>) => exc # "None"
        /\ (~file.exists \/ (file.mode = "ok" /\ ~IsDigit(Trimmed(file.content))))
               => Kinds(CallOut) = <<"default">>

\* C7 witness: a call printed the error line and then the default line.
C7_Witness ==
    /\ pc = "returned"
    /\ Kinds(CallOut) = <<"error", "default">>

\* ------------------------------------------- claims, file changing
\* C8: building the config calls get_unity_port once, and the call is over
\* before the config is bound: the config never exists without a port, nor
\* with a port other than the one that call returned.
C8_ResolvedBeforeVisible ==
    /\ (caller = "init" /\ pc # "loaded") => config = None
    /\ pc = "loaded" => (calls = 1 /\ Len(rets) = 1)
    /\ config # None =>
           /\ Len(rets) >= 1
           /\ config[1].unity_port \in Nat
           /\ config[1].unity_port = rets[1]

\* C8 witness: the config was bound with a port read from a file that
\* another process wrote during the load.
C8_Witness ==
    /\ pc = "loaded"
    /\ envSteps > 0
    /\ config[1].unity_port = 70

\* C9: once the config is built, no step (of the module, or of a process
\* that creates, rewrites or deletes the file) changes config.unity_port.
C9_Snapshot ==
    [][config # None =>
          (config' # None /\ config'[1].unity_port = config[1].unity_port)]_vars

\* C9 witness: after changes to the file, a fresh call returned a port
\* other than the one the config holds.
C9_Witness ==
    /\ config # None
    /\ envSteps > 0
    /\ caller = "direct"
    /\ pc = "returned"
    /\ LastRet # config[1].unity_port

\* the part of C10 that holds with and without the amendment: a call that
\* found the file missing or unreadable at the open returns 6400 after the
\* error line and the default line, and a returned value is 6400 or the
\* number denoted by the text the read returned.
C10_Outcomes ==
    pc = "returned" =>
        /\ exc \in {"FileNotFoundError", "PermissionError"} =>
               /\ LastRet = 6400
               /\ Kinds(CallOut) = <<"error", "default">>
        /\ \/ LastRet = 6400
           \/ /\ raw # None
              /\ IsDecimalString(Trimmed(raw[1]))
              /\ LastRet = PlaceValue(Trimmed(raw[1]))

\* C10 as amended: the error path is taken when the file is deleted or made
\* unreadable between the existence check and the open; the read returns
\* what the opened file holds at that moment, which is the content at the
\* path unless the file was deleted after the open.
C10_RaceOutcomes ==
    /\ []C10_Outcomes
    /\ [][(pc = "read" /\ pc' = "isdigit") =>
             /\ raw' = <<fh[1].content>>
             /\ fh[1].linked => (file.exists /\ fh[1].content = file.content)]_vars

\* C10 witness: the file was deleted between the existence check and the
\* open, and the call returned.
C10_Witness ==
    /\ pc = "returned"
    /\ exc = "FileNotFoundError"
    /\ envSteps > 0

\* C10 as stated: a deletion or loss of permission anywhere between the
\* existence check and the read ends in the error path, so a read succeeds
\* only on a file that is at its path and readable, and returns the
\* content at the path.
C10_Original ==
    /\ []C10_Outcomes
    /\ [][(pc = "read" /\ pc' = "isdigit") =>
             /\ file.exists
             /\ file.mode # "noperm"
             /\ raw' = <<file.content>>]_vars

=============================================================================
